---- MODULE Spec2Model ----
(***************************************************************************)
(* Model of pose_detector.py: the pose classifier detect_pose and the      *)
(* Tkinter frame loop update_frame around it.                              *)
(*                                                                         *)
(* Coordinates are fixed point: one unit is 0.0001 of the image, so the    *)
(* source's literal 0.1 is 1000 units.  Arithmetic is exact.  The source   *)
(* computes in IEEE doubles: a difference is the correctly rounded exact   *)
(* difference of the stored values and rounding is monotone, so each       *)
(* comparison against a literal agrees with the exact comparison unless    *)
(* the exact difference lies within one rounding error (about 1e-17) of    *)
(* the literal.  A difference of 1000 units stands for a computed          *)
(* difference equal to the literal.                                        *)
(* Averages are kept doubled (left + right), and compared against doubled  *)
(* literals, so that no half unit is lost.                                 *)
(***************************************************************************)
EXTENDS Integers, FiniteSets, Sequences

VARIABLES
    pc,           \* position of the module-level script (lines 164-176)
    cap,          \* the capture device handle: "open" or "released"
    timer,        \* TRUE while a label.after(10, update_frame) call is pending
    tick,         \* what the last run of update_frame did
    results,      \* pose.process(...).pose_landmarks: {} (None) or {landmarks}
    pose_type,    \* value returned by the last detect_pose call, or "none"
    label_image   \* size <<width, height>> of the image the label shows, <<>> if none

vars == <<pc, cap, timer, tick, results, pose_type, label_image>>

Abs(v) == IF v < 0 THEN -v ELSE v

(***************************************************************************)
(* Literals of detect_pose, in units of 0.0001.                            *)
(***************************************************************************)
TOL_0_1 == 1000
HEART_WRIST_GAP == 3000
FOLDED_WRIST_GAP == 500
TORSO_TOL == 2000
HIP_LEVEL_TOL == 5000

(***************************************************************************)
(* detect_pose: the landmarks it reads (lines 56-65) and the averages      *)
(* (lines 67-69, doubled).                                                 *)
(***************************************************************************)
Pt(px, py) == [x |-> px, y |-> py]

left_wrist(landmarks) == landmarks.LEFT_WRIST
right_wrist(landmarks) == landmarks.RIGHT_WRIST
left_elbow(landmarks) == landmarks.LEFT_ELBOW
right_elbow(landmarks) == landmarks.RIGHT_ELBOW
left_shoulder(landmarks) == landmarks.LEFT_SHOULDER
right_shoulder(landmarks) == landmarks.RIGHT_SHOULDER
left_hip(landmarks) == landmarks.LEFT_HIP
right_hip(landmarks) == landmarks.RIGHT_HIP
left_knee(landmarks) == landmarks.LEFT_KNEE
right_knee(landmarks) == landmarks.RIGHT_KNEE

\* twice avg_shoulder_y, avg_hip_y, avg_knee_y
avg_shoulder_y2(landmarks) == left_shoulder(landmarks).y + right_shoulder(landmarks).y
avg_hip_y2(landmarks) == left_hip(landmarks).y + right_hip(landmarks).y
avg_knee_y2(landmarks) == left_knee(landmarks).y + right_knee(landmarks).y

(***************************************************************************)
(* The conditions of the cascade, one per if statement.                    *)
(***************************************************************************)
is_t_pose_nonstrict(landmarks) ==
    /\ Abs(left_wrist(landmarks).y - left_elbow(landmarks).y) <= TOL_0_1
    /\ Abs(right_wrist(landmarks).y - right_elbow(landmarks).y) <= TOL_0_1
    /\ Abs(left_wrist(landmarks).y - left_shoulder(landmarks).y) <= TOL_0_1
    /\ Abs(right_wrist(landmarks).y - right_shoulder(landmarks).y) <= TOL_0_1

is_t_pose(landmarks) ==
    /\ Abs(left_wrist(landmarks).y - left_elbow(landmarks).y) < TOL_0_1
    /\ Abs(right_wrist(landmarks).y - right_elbow(landmarks).y) < TOL_0_1
    /\ Abs(left_wrist(landmarks).y - left_shoulder(landmarks).y) < TOL_0_1
    /\ Abs(right_wrist(landmarks).y - right_shoulder(landmarks).y) < TOL_0_1

is_heart_nonstrict_gap(landmarks) ==
    /\ Abs(left_wrist(landmarks).x - right_wrist(landmarks).x) <= HEART_WRIST_GAP
    /\ left_wrist(landmarks).y < left_elbow(landmarks).y
    /\ right_wrist(landmarks).y < right_elbow(landmarks).y
    /\ left_wrist(landmarks).y < left_shoulder(landmarks).y
    /\ right_wrist(landmarks).y < right_shoulder(landmarks).y
    /\ ~(Abs(left_wrist(landmarks).x - left_elbow(landmarks).x) < TOL_0_1)
    /\ ~(Abs(right_wrist(landmarks).x - right_elbow(landmarks).x) < TOL_0_1)

is_heart(landmarks) ==
    /\ Abs(left_wrist(landmarks).x - right_wrist(landmarks).x) < HEART_WRIST_GAP
    /\ left_wrist(landmarks).y < left_elbow(landmarks).y
    /\ right_wrist(landmarks).y < right_elbow(landmarks).y
    /\ left_wrist(landmarks).y < left_shoulder(landmarks).y
    /\ right_wrist(landmarks).y < right_shoulder(landmarks).y
    /\ ~(Abs(left_wrist(landmarks).x - left_elbow(landmarks).x) < TOL_0_1)
    /\ ~(Abs(right_wrist(landmarks).x - right_elbow(landmarks).x) < TOL_0_1)

is_hands_up(landmarks) ==
    /\ left_wrist(landmarks).y < left_elbow(landmarks).y
    /\ right_wrist(landmarks).y < right_elbow(landmarks).y
    /\ left_wrist(landmarks).y < left_shoulder(landmarks).y
    /\ right_wrist(landmarks).y < right_shoulder(landmarks).y

is_waving(landmarks) ==
    /\ \/ left_wrist(landmarks).y < left_elbow(landmarks).y
       \/ right_wrist(landmarks).y < right_elbow(landmarks).y
    /\ \/ left_wrist(landmarks).y < left_shoulder(landmarks).y
       \/ right_wrist(landmarks).y < right_shoulder(landmarks).y

is_folded_hands(landmarks) ==
    /\ Abs(left_wrist(landmarks).x - right_wrist(landmarks).x) < FOLDED_WRIST_GAP
    /\ left_wrist(landmarks).y < left_elbow(landmarks).y
    /\ right_wrist(landmarks).y < right_elbow(landmarks).y
    /\ left_wrist(landmarks).y > left_shoulder(landmarks).y

is_arms_crossed(landmarks) ==
    /\ left_wrist(landmarks).x > right_shoulder(landmarks).x
    /\ right_wrist(landmarks).x < left_shoulder(landmarks).x
    /\ left_elbow(landmarks).y > left_wrist(landmarks).y
    /\ right_elbow(landmarks).y > right_wrist(landmarks).y

is_bending_down_hips_below(landmarks) ==
    /\ Abs(avg_shoulder_y2(landmarks) - avg_hip_y2(landmarks)) <= 2 * TORSO_TOL
    /\ avg_hip_y2(landmarks) > avg_knee_y2(landmarks)

is_bending_down(landmarks) ==
    /\ Abs(avg_shoulder_y2(landmarks) - avg_hip_y2(landmarks)) <= 2 * TORSO_TOL
    /\ avg_hip_y2(landmarks) < avg_knee_y2(landmarks)

is_sitting(landmarks) ==
    /\ avg_hip_y2(landmarks) > avg_knee_y2(landmarks)
    /\ Abs(left_hip(landmarks).y - right_hip(landmarks).y) < HIP_LEVEL_TOL

is_standing(landmarks) ==
    /\ Abs(left_wrist(landmarks).y - left_hip(landmarks).y) < TOL_0_1
    /\ Abs(right_wrist(landmarks).y - right_hip(landmarks).y) < TOL_0_1
    /\ left_elbow(landmarks).x < left_wrist(landmarks).x
    /\ right_elbow(landmarks).x > right_wrist(landmarks).x

is_hands_on_hips_hips_below(landmarks) ==
    /\ Abs(avg_shoulder_y2(landmarks) - avg_hip_y2(landmarks)) > 2 * TORSO_TOL
    /\ avg_hip_y2(landmarks) > avg_knee_y2(landmarks)

is_hands_on_hips(landmarks) ==
    /\ Abs(avg_shoulder_y2(landmarks) - avg_hip_y2(landmarks)) > 2 * TORSO_TOL
    /\ avg_hip_y2(landmarks) < avg_knee_y2(landmarks)

(***************************************************************************)
(* detect_pose: the first condition that holds decides the label.          *)
(***************************************************************************)
detect_pose_hands_up_first(landmarks) ==
    IF is_heart(landmarks) THEN "Heart"
    ELSE IF is_hands_up(landmarks) THEN "Hands Up"
    ELSE IF is_t_pose(landmarks) THEN "T-Pose"
    ELSE IF is_waving(landmarks) THEN "Waving"
    ELSE IF is_folded_hands(landmarks) THEN "Folded Hands"
    ELSE IF is_arms_crossed(landmarks) THEN "Arms Crossed"
    ELSE IF is_bending_down(landmarks) THEN "Bending Down"
    ELSE IF is_sitting(landmarks) THEN "Sitting"
    ELSE IF is_standing(landmarks) THEN "Standing"
    ELSE IF is_hands_on_hips(landmarks) THEN "Hands on Hips"
    ELSE "Unknown Pose"

detect_pose_no_fallback(landmarks) ==
    IF is_t_pose(landmarks) THEN "T-Pose"
    ELSE IF is_heart(landmarks) THEN "Heart"
    ELSE IF is_hands_up(landmarks) THEN "Hands Up"
    ELSE IF is_waving(landmarks) THEN "Waving"
    ELSE IF is_folded_hands(landmarks) THEN "Folded Hands"
    ELSE IF is_arms_crossed(landmarks) THEN "Arms Crossed"
    ELSE IF is_bending_down(landmarks) THEN "Bending Down"
    ELSE IF is_sitting(landmarks) THEN "Sitting"
    ELSE IF is_standing(landmarks) THEN "Standing"
    ELSE IF is_hands_on_hips(landmarks) THEN "Hands on Hips"
    ELSE "None"

detect_pose(landmarks) ==
    IF is_t_pose(landmarks) THEN "T-Pose"
    ELSE IF is_heart(landmarks) THEN "Heart"
    ELSE IF is_hands_up(landmarks) THEN "Hands Up"
    ELSE IF is_waving(landmarks) THEN "Waving"
    ELSE IF is_folded_hands(landmarks) THEN "Folded Hands"
    ELSE IF is_arms_crossed(landmarks) THEN "Arms Crossed"
    ELSE IF is_bending_down(landmarks) THEN "Bending Down"
    ELSE IF is_sitting(landmarks) THEN "Sitting"
    ELSE IF is_standing(landmarks) THEN "Standing"
    ELSE IF is_hands_on_hips(landmarks) THEN "Hands on Hips"
    ELSE "Unknown Pose"

(***************************************************************************)
(* Inputs.  A landmark set holds the ten joints detect_pose reads; the     *)
(* other joints, z and visibility are never read.  The grid places every   *)
(* coordinate the cascade compares on both sides of each literal, at the   *)
(* literal itself and one unit off it.                                     *)
(***************************************************************************)
KneeLevels == 2

Landmarks(lw, rw, le, re, ls, rs, lh, rh, lk, rk) ==
    [LEFT_WRIST |-> lw, RIGHT_WRIST |-> rw, LEFT_ELBOW |-> le, RIGHT_ELBOW |-> re,
     LEFT_SHOULDER |-> ls, RIGHT_SHOULDER |-> rs, LEFT_HIP |-> lh, RIGHT_HIP |-> rh,
     LEFT_KNEE |-> lk, RIGHT_KNEE |-> rk]

WristYs == {2000, 2001, 3500, 5900}
ElbowYs == {3000, 4500}
LeftShoulderYs == {3000}
RightShoulderYs == {3000, 3002}
LeftHipYs == {5000, 5001, 8000}
RightHipYs == {5000, 8000, 10000}
KneeYs == {3500 + 3000 * k : k \in 0..(KneeLevels - 1)}
LeftWristXs == {4000, 4600, 7000}
RightWristXs == {4000, 4200, 7000}
LeftElbowXs == {4000, 5000}
RightElbowXs == {4000, 5200}
LeftXs == {6000}
RightXs == {4000}

\* Two landmark sets for the frame loop: arms level and arms hanging.
PoseSamples ==
    { Landmarks(Pt(7000, wy), Pt(4000, wy), Pt(5000, ey), Pt(5200, ey),
                Pt(lx, 3000), Pt(rx, 3000), Pt(lx, 5001), Pt(rx, 5000),
                Pt(lx, 6500), Pt(rx, 6500)) :
        wy \in {2001, 5900}, ey \in {3000}, lx \in LeftXs, rx \in RightXs }

NoTick == [ran |-> FALSE, ret |-> FALSE, processed |-> FALSE, classified |-> FALSE,
           putText |-> 0, resized |-> FALSE, window |-> <<>>, frame |-> <<>>,
           presented |-> <<>>]

(***************************************************************************)
(* The classifier on its own: one landmark set of the grid, then one call. *)
(***************************************************************************)
InitPose ==
    /\ pc = "classify"
    /\ cap = "open"
    /\ timer = FALSE
    /\ tick = NoTick
    /\ pose_type = "none"
    /\ label_image = <<>>
    /\ \E lwx \in LeftWristXs, rwx \in RightWristXs, lex \in LeftElbowXs, rex \in RightElbowXs :
       \E lwy \in WristYs, rwy \in WristYs, ley \in ElbowYs, rey \in ElbowYs :
       \E lsy \in LeftShoulderYs, rsy \in RightShoulderYs :
       \E lhy \in LeftHipYs, rhy \in RightHipYs, lky \in KneeYs, rky \in KneeYs :
       \E lx \in LeftXs, rx \in RightXs :
          results = { Landmarks(Pt(lwx, lwy), Pt(rwx, rwy), Pt(lex, ley), Pt(rex, rey),
                                Pt(lx, lsy), Pt(rx, rsy), Pt(lx, lhy), Pt(rx, rhy),
                                Pt(lx, lky), Pt(rx, rky)) }

the_landmarks == CHOOSE l \in results : TRUE

DetectPose ==
    /\ pc = "classify"
    /\ pose_type = "none"
    /\ pose_type' = detect_pose(the_landmarks)
    /\ UNCHANGED <<pc, cap, timer, tick, results, label_image>>

NextPose == DetectPose

SpecPose == InitPose /\ [][NextPose]_vars

(***************************************************************************)
(* update_frame (lines 113-162) and the script around it (lines 164-176).  *)
(***************************************************************************)
MaxWin == 3
MaxFrame == 3

\* Side lengths of a captured frame, in pixels.
FrameSides == 2..MaxFrame

Max(a, b) == IF a > b THEN a ELSE b

\* Lines 139-149.  The quotients are Python floats there; for the sizes used
\* here int(h * (fw / fh)) and int(w / (fw / fh)) equal the exact floors.
new_size_flipped(winfo_width, winfo_height, frame_width, frame_height) ==
    LET window_width == Max(1, winfo_width)
        window_height == Max(1, winfo_height)
    IN  IF window_width * frame_height < window_height * frame_width
        THEN <<(window_height * frame_width) \div frame_height, window_height>>
        ELSE <<window_width, (window_width * frame_height) \div frame_width>>

new_size(winfo_width, winfo_height, frame_width, frame_height) ==
    LET window_width == Max(1, winfo_width)
        window_height == Max(1, winfo_height)
    IN  IF window_width * frame_height > window_height * frame_width
        THEN <<(window_height * frame_width) \div frame_height, window_height>>
        ELSE <<window_width, (window_width * frame_height) \div frame_width>>

\* Line 151.
does_resize(new) == new[1] > 0 /\ new[2] > 0

\* A variant that returns as soon as no person is found.
update_frame_return_without_person(ret, frame_width, frame_height, pose_landmarks, winfo_width, winfo_height) ==
    IF ~ret \/ pose_landmarks = {}
    THEN /\ tick' = [NoTick EXCEPT !.ran = TRUE, !.ret = ret, !.processed = ret]
         /\ results' = {}
         /\ pose_type' = "none"
         /\ timer' = FALSE
         /\ UNCHANGED label_image
    ELSE LET new == new_size(winfo_width, winfo_height, frame_width, frame_height)
             shown == IF does_resize(new) THEN new ELSE <<frame_width, frame_height>>
         IN  /\ tick' = [ran |-> TRUE, ret |-> TRUE, processed |-> TRUE,
                         classified |-> TRUE, putText |-> 4,
                         resized |-> does_resize(new),
                         window |-> <<winfo_width, winfo_height>>,
                         frame |-> <<frame_width, frame_height>>,
                         presented |-> shown]
             /\ results' = pose_landmarks
             /\ pose_type' = detect_pose(CHOOSE l \in pose_landmarks : TRUE)
             /\ label_image' = shown
             /\ timer' = TRUE

\* One run of update_frame.  ret and the frame come from cap.read(), the
\* landmarks from pose.process, the window size from root.winfo_width/height.
update_frame(ret, frame_width, frame_height, pose_landmarks, winfo_width, winfo_height) ==
    IF ~ret
    THEN \* line 116: return, before pose.process and before label.after
         /\ tick' = [NoTick EXCEPT !.ran = TRUE]
         /\ results' = {}
         /\ pose_type' = "none"
         /\ timer' = FALSE
         /\ UNCHANGED label_image
    ELSE LET classified == pose_landmarks # {}
             new == new_size(winfo_width, winfo_height, frame_width, frame_height)
             shown == IF does_resize(new) THEN new ELSE <<frame_width, frame_height>>
         IN  /\ tick' = [ran |-> TRUE, ret |-> TRUE, processed |-> TRUE,
                         classified |-> classified,
                         \* lines 134-137: three border passes and the fill
                         putText |-> IF classified THEN 4 ELSE 0,
                         resized |-> does_resize(new),
                         window |-> <<winfo_width, winfo_height>>,
                         frame |-> <<frame_width, frame_height>>,
                         presented |-> shown]
             /\ results' = pose_landmarks
             /\ pose_type' = IF classified
                             THEN detect_pose(CHOOSE l \in pose_landmarks : TRUE)
                             ELSE "none"
             /\ label_image' = shown
             /\ timer' = TRUE      \* line 162

PoseResults == {{}} \cup {{l} : l \in PoseSamples}

Init ==
    /\ pc = "start"
    /\ cap = "open"               \* line 52
    /\ timer = FALSE
    /\ tick = NoTick
    /\ results = {}
    /\ pose_type = "none"
    /\ label_image = <<>>

\* Line 171: the first call, made by the script itself.
FirstCall ==
    /\ pc = "start"
    /\ \E ret \in BOOLEAN, fw \in FrameSides, fh \in FrameSides,
          lms \in PoseResults, ww \in 0..MaxWin, wh \in 0..MaxWin :
          update_frame(ret, fw, fh, lms, ww, wh)
    /\ pc' = "mainloop"
    /\ UNCHANGED cap

\* The pending after-callback fires inside root.mainloop().
TimerCallback ==
    /\ pc = "mainloop"
    /\ timer
    /\ \E ret \in BOOLEAN, fw \in FrameSides, fh \in FrameSides,
          lms \in PoseResults, ww \in 0..MaxWin, wh \in 0..MaxWin :
          update_frame(ret, fw, fh, lms, ww, wh)
    /\ UNCHANGED <<pc, cap>>

\* The user closes the window: root.mainloop() returns (line 173).
CloseWindow ==
    /\ pc = "mainloop"
    /\ pc' = "shutdown"
    /\ timer' = FALSE
    /\ UNCHANGED <<cap, tick, results, pose_type, label_image>>

\* Lines 175-176.
Release ==
    /\ pc = "shutdown"
    /\ cap' = "released"
    /\ pc' = "done"
    /\ UNCHANGED <<timer, tick, results, pose_type, label_image>>

\* An exception leaves root.mainloop() (KeyboardInterrupt on SIGINT): the
\* script has no try/finally, so the interpreter exits at line 173.
Interrupt ==
    /\ pc = "mainloop"
    /\ pc' = "aborted"
    /\ timer' = FALSE
    /\ UNCHANGED <<cap, tick, results, pose_type, label_image>>

Next == FirstCall \/ TimerCallback \/ CloseWindow \/ Release \/ Interrupt

Spec == Init /\ [][Next]_vars

(***************************************************************************)
(* Properties.  lm is the landmark set of the last detect_pose call.       *)
(***************************************************************************)
lm == the_landmarks
Called == results # {} /\ pose_type # "none"

LabelsOfSpec ==
    {"T-Pose", "Heart", "Hands Up", "Waving", "Folded Hands", "Arms Crossed",
     "Bending Down", "Sitting", "Standing", "Hands on Hips", "Unknown"}
LabelsOfCode == (LabelsOfSpec \ {"Unknown"}) \cup {"Unknown Pose"}

\* C1 as stated: every call of detect_pose returns one of the eleven labels
\* T-Pose, Heart, Hands Up, Waving, Folded Hands, Arms Crossed, Bending Down,
\* Sitting, Standing, Hands on Hips, Unknown.
C1_LabelInSpecEnumeration == Called => pose_type \in LabelsOfSpec

\* C1 amended: every call of detect_pose returns one of eleven labels, the
\* ten named poses or the fallback, whose text is "Unknown Pose".
C1_LabelInCodeEnumeration == Called => pose_type \in LabelsOfCode

C1_FallbackReturned == Called /\ pose_type = "Unknown Pose"

\* The T-Pose condition as the claims state it.
TPoseCondition ==
    /\ Abs(lm.LEFT_WRIST.y - lm.LEFT_ELBOW.y) < 1000
    /\ Abs(lm.RIGHT_WRIST.y - lm.RIGHT_ELBOW.y) < 1000
    /\ Abs(lm.LEFT_WRIST.y - lm.LEFT_SHOULDER.y) < 1000
    /\ Abs(lm.RIGHT_WRIST.y - lm.RIGHT_SHOULDER.y) < 1000

\* Both wrists above their own elbows and their own shoulders.
WristsRaised ==
    /\ lm.LEFT_WRIST.y < lm.LEFT_ELBOW.y
    /\ lm.RIGHT_WRIST.y < lm.RIGHT_ELBOW.y
    /\ lm.LEFT_WRIST.y < lm.LEFT_SHOULDER.y
    /\ lm.RIGHT_WRIST.y < lm.RIGHT_SHOULDER.y

\* C3: first match wins: a landmark set that satisfies the T-Pose condition
\* is classified T-Pose whatever later conditions it also satisfies, in
\* particular never Hands Up.
C3_TPoseWinsFirst == (Called /\ TPoseCondition) => pose_type = "T-Pose"

C3_TPoseAndHandsUpSeen ==
    Called /\ TPoseCondition /\ WristsRaised /\ pose_type = "T-Pose"

WristsClose == Abs(lm.LEFT_WRIST.x - lm.RIGHT_WRIST.x) < 3000
LeftAligned == Abs(lm.LEFT_WRIST.x - lm.LEFT_ELBOW.x) < 1000
RightAligned == Abs(lm.RIGHT_WRIST.x - lm.RIGHT_ELBOW.x) < 1000

\* C8 as stated: off the T-Pose condition the result is Heart exactly when the
\* wrists are close and raised and not both wrists are aligned with their
\* elbows.
C8_HeartUnlessBothAligned ==
    (Called /\ ~TPoseCondition) =>
        (pose_type = "Heart" <=>
            (WristsClose /\ WristsRaised /\ ~(LeftAligned /\ RightAligned)))

\* C8 amended: off the T-Pose condition the result is Heart exactly when the
\* wrists are close and raised and neither wrist is aligned with its elbow;
\* raised wrists of which at least one is aligned give Hands Up.
C8_HeartOnlyIfNeitherAligned ==
    (Called /\ ~TPoseCondition) =>
        /\ pose_type = "Heart" <=>
              (WristsClose /\ WristsRaised /\ ~LeftAligned /\ ~RightAligned)
        /\ (WristsRaised /\ (LeftAligned \/ RightAligned)) => pose_type = "Hands Up"

C8_OneAlignedIsHandsUp ==
    /\ Called /\ ~TPoseCondition /\ WristsClose /\ WristsRaised
    /\ LeftAligned /\ ~RightAligned
    /\ pose_type = "Hands Up"

TPoseDeltas ==
    { Abs(lm.LEFT_WRIST.y - lm.LEFT_ELBOW.y), Abs(lm.RIGHT_WRIST.y - lm.RIGHT_ELBOW.y),
      Abs(lm.LEFT_WRIST.y - lm.LEFT_SHOULDER.y), Abs(lm.RIGHT_WRIST.y - lm.RIGHT_SHOULDER.y) }

\* C9: the T-Pose tolerance is strict: four deltas of 0.0999 give T-Pose, and
\* one delta of 0.1000 or more rules T-Pose out.
C9_TPoseStrictTolerance ==
    Called =>
        /\ TPoseDeltas = {999} => pose_type = "T-Pose"
        /\ (\E d \in TPoseDeltas : d >= 1000) => pose_type # "T-Pose"

C9_AllDeltas999Seen == Called /\ TPoseDeltas = {999} /\ pose_type = "T-Pose"

\* The Bending Down and Sitting conditions as the claim states them.
BendingCondition ==
    /\ Abs((lm.LEFT_SHOULDER.y + lm.RIGHT_SHOULDER.y) - (lm.LEFT_HIP.y + lm.RIGHT_HIP.y)) <= 4000
    /\ lm.LEFT_HIP.y + lm.RIGHT_HIP.y < lm.LEFT_KNEE.y + lm.RIGHT_KNEE.y

NoneOfOneToSix ==
    /\ ~is_t_pose(lm) /\ ~is_heart(lm) /\ ~is_hands_up(lm)
    /\ ~is_waving(lm) /\ ~is_folded_hands(lm) /\ ~is_arms_crossed(lm)

\* C10: the Bending Down and Sitting conditions never hold together; where
\* the Bending Down condition holds the result is never Sitting, and it is
\* Bending Down when none of the six earlier conditions holds.
C10_BendingExcludesSitting ==
    Called =>
        /\ ~(is_bending_down(lm) /\ is_sitting(lm))
        /\ BendingCondition => pose_type # "Sitting"
        /\ (BendingCondition /\ NoneOfOneToSix) => pose_type = "Bending Down"

C10_BendingDownSeen ==
    Called /\ BendingCondition /\ NoneOfOneToSix /\ pose_type = "Bending Down"

\* The neutral case of C7; far below is read as below by at least 0.1.
NeutralCase ==
    /\ lm.LEFT_WRIST.y - lm.LEFT_ELBOW.y >= 1000
    /\ lm.RIGHT_WRIST.y - lm.RIGHT_ELBOW.y >= 1000
    /\ lm.LEFT_ELBOW.y - lm.LEFT_SHOULDER.y >= 1000
    /\ lm.RIGHT_ELBOW.y - lm.RIGHT_SHOULDER.y >= 1000
    /\ lm.LEFT_HIP.y + lm.RIGHT_HIP.y < lm.LEFT_KNEE.y + lm.RIGHT_KNEE.y
    /\ Abs((lm.LEFT_SHOULDER.y + lm.RIGHT_SHOULDER.y) - (lm.LEFT_HIP.y + lm.RIGHT_HIP.y)) > 4000

StandingCondition ==
    /\ Abs(lm.LEFT_WRIST.y - lm.LEFT_HIP.y) < 1000
    /\ Abs(lm.RIGHT_WRIST.y - lm.RIGHT_HIP.y) < 1000
    /\ lm.LEFT_ELBOW.x < lm.LEFT_WRIST.x
    /\ lm.RIGHT_ELBOW.x > lm.RIGHT_WRIST.x

\* C7 as stated: the neutral case (wrists far below elbows, elbows far below
\* shoulders, hips above knees, shoulders far above hips) matches none of the
\* ten conditions and is classified as the Unknown fallback.
C7_NeutralIsUnknown ==
    (Called /\ NeutralCase) => pose_type \in {"Unknown", "Unknown Pose"}

\* C7 amended: the neutral case matches none of conditions 1-8 but always
\* matches condition 10, so it is classified Standing when the Standing
\* condition holds and Hands on Hips otherwise, never Unknown.
C7_NeutralIsStandingOrHandsOnHips ==
    (Called /\ NeutralCase) =>
        /\ NoneOfOneToSix /\ ~is_bending_down(lm) /\ ~is_sitting(lm)
        /\ pose_type = IF StandingCondition THEN "Standing" ELSE "Hands on Hips"

C7_NeutralHandsOnHipsSeen == Called /\ NeutralCase /\ pose_type = "Hands on Hips"

(***************************************************************************)
(* Properties of the frame loop.                                           *)
(***************************************************************************)

\* C2: a tick whose frame read fails does no extraction, classification or
\* rendering, and while the window is open another tick is scheduled after it.
C2_FailedReadIsRetried ==
    (pc = "mainloop" /\ tick.ran /\ ~tick.ret) =>
        /\ ~tick.processed /\ ~tick.classified /\ tick.putText = 0
        /\ timer

\* C4: whenever the program has terminated, the capture device opened at
\* startup has been released.
C4_TerminatedImpliesReleased == pc \in {"done", "aborted"} => cap = "released"

\* C5: on a tick with a frame but no landmarks, detect_pose is not called and
\* no label text is drawn; the frame is presented and the next tick scheduled.
C5_NoPersonStillPresents ==
    (tick.ran /\ tick.ret /\ results = {}) =>
        /\ ~tick.classified /\ tick.putText = 0 /\ pose_type = "none"
        /\ tick.presented # <<>> /\ label_image = tick.presented
        /\ pc = "mainloop" => timer

C5_NoPersonTickSeen ==
    tick.ran /\ tick.ret /\ results = {} /\ pc = "mainloop" /\ timer

ZeroWidth == tick.window[1] = 0
ZeroHeight == tick.window[2] = 0
Unscaled == ~tick.resized /\ tick.presented = tick.frame

\* C6 as stated: a display width or height of zero, for any frame size, makes
\* update_frame skip the resize and present the frame unscaled.
C6_ZeroDimensionSkipsResize ==
    (tick.ran /\ tick.ret /\ (ZeroWidth \/ ZeroHeight)) => Unscaled

\* C6 amended: a display width of zero with a frame wider than tall, or a
\* display height of zero with a frame taller than wide, makes update_frame
\* skip the resize and present the frame unscaled.
C6_ZeroAlongLongSideSkipsResize ==
    (tick.ran /\ tick.ret) =>
        /\ (ZeroWidth /\ tick.frame[1] > tick.frame[2]) => Unscaled
        /\ (ZeroHeight /\ tick.frame[2] > tick.frame[1]) => Unscaled

C6_ZeroWidthUnscaledSeen ==
    /\ tick.ran /\ tick.ret /\ ZeroWidth /\ ~ZeroHeight
    /\ tick.frame[1] > tick.frame[2] /\ Unscaled

====
